---- MODULE Spec2Model ----
(***************************************************************************)
(* The accounts application: registration, e-mail verification tokens,     *)
(* login by username or e-mail, the profile signals and the favourite      *)
(* toggles (accounts/models.py, accounts/backends.py, accounts/views.py,   *)
(* accounts/admin.py).                                                     *)
(*                                                                         *)
(* The database tables are the variables users, profiles and tokens.  The  *)
(* profile and token tables are kept per owner as the list of rows whose   *)
(* user_id is that owner, so that "one row per owner" is something the     *)
(* requests have to establish, not something the representation gives.     *)
(* Time is counted in seconds.                                             *)
(***************************************************************************)
EXTENDS Integers, Sequences, FiniteSets, TLC

VARIABLES
    users,       \* auth_user: pk -> [username, email, password, is_active]
    profiles,    \* accounts_userprofile: owner pk -> rows owned by it
    tokens,      \* accounts_emailverificationtoken: owner pk -> rows owned by it
    nextToken,   \* number of uuid4 values drawn so far (each draw is fresh)
    now,         \* timezone.now(), in seconds
    sessionUser, \* the client's session: pk of the logged-in user, 0 if anonymous
    resp,        \* the response of the last request handled
    delivery,    \* what send_mail did during the last request
    prevToggle,  \* the response before resp, when both are favourite toggles
    consumed,    \* history: <<token value, owner>> of every successful verification
    inflight     \* a verify_email request between its database writes

vars == <<users, profiles, tokens, nextToken, now, sessionUser, resp, delivery,
          prevToggle, consumed, inflight>>

----------------------------------------------------------------------------
\* Bounds: the token values that may be drawn, the catalogue rows of each kind,
\* and how many seconds around issuance and around the 24 hour boundary the
\* clock is observed at.

MaxTokens == 3
MaxItems == 2
MaxSkew == 1

\* timedelta(hours=24), in seconds.
TokenLifetime == 86400

TokenValues == 1..MaxTokens
Items == 1..MaxItems

\* The instants the clock is observed at: around issuance and around the
\* 24 hour boundary.
Instants == (0..MaxSkew) \cup ((TokenLifetime - MaxSkew)..(TokenLifetime + MaxSkew))

\* Registration input, and what a client may type into the login form.
Usernames == {"amy", "bob@x.org"}
Emails == {"amy@x.org", "bob@x.org"}
RegPasswords == {"pw1"}
LoginNames == Usernames \cup Emails \cup {"AMY"}
LoginPasswords == {"pw1", "pw2"}

\* The primary keys auth_user can hand out: a username registers once.
UserIds == 1..Cardinality(Usernames)

----------------------------------------------------------------------------
\* accounts/models.py

\* A new UserProfile row: verified defaults to False, the three many-to-many
\* relations start empty.
NewProfile == [verified |-> FALSE,
               favourite_products |-> {},
               saved_prompts |-> {},
               saved_templates |-> {}]

\* UserProfile.objects.create(user=instance)
ProfileCreate(ps, u) == [ps EXCEPT ![u] = Append(@, NewProfile)]

\* post_save receiver create_user_profile
create_user_profile(ps, u, created) ==
    IF created THEN ProfileCreate(ps, u) ELSE ps

\* Variant of save_user_profile that creates without looking for the profile.
save_user_profile_blind(ps, u) == ProfileCreate(ps, u)

\* post_save receiver save_user_profile: instance.profile.save() writes the
\* row back as it is; RelatedObjectDoesNotExist creates the row.
save_user_profile(ps, u) ==
    IF Len(ps[u]) > 0 THEN ps ELSE ProfileCreate(ps, u)

\* User.save(): the post_save receivers, in the order they are connected.
post_save(ps, u, created) ==
    save_user_profile(create_user_profile(ps, u, created), u)

\* Variant of is_valid with a strict comparison.
is_valid_strict(row, t) == row.created_at > t - TokenLifetime

\* EmailVerificationToken.is_valid, at wall-clock time t
is_valid(row, t) == row.created_at >= t - TokenLifetime

----------------------------------------------------------------------------
\* accounts/backends.py

\* Case folding of the identifiers in use (iexact compares case-insensitively).
Fold(s) == CASE s = "AMY" -> "amy"
             [] OTHER -> s

\* Q(username__iexact=username) | Q(email__iexact=username)
Matches(us, ident) ==
    {u \in DOMAIN us : \/ Fold(us[u].username) = Fold(ident)
                       \/ Fold(us[u].email) = Fold(ident)}

\* set_password / check_password: the stored value is a hash of the raw one.
Hash(raw) == <<"pbkdf2", raw>>
check_password(user, raw) == user.password = Hash(raw)

\* ModelBackend.user_can_authenticate
user_can_authenticate(user) == user.is_active

\* EmailOrUsernameModelBackend.authenticate: the pk of the user, 0 for None,
\* -1 when objects.get raises MultipleObjectsReturned, which nothing catches.
authenticate(us, ident, raw) ==
    LET m == Matches(us, ident)
    IN  IF m = {} THEN 0
        ELSE IF Cardinality(m) > 1 THEN -1
        ELSE LET u == CHOOSE x \in m : TRUE
             IN  IF check_password(us[u], raw) /\ user_can_authenticate(us[u])
                 THEN u ELSE 0

----------------------------------------------------------------------------
\* accounts/views.py: the values the handlers work on

\* The response of a handler.  Two fields are kept for the properties and are
\* not seen by the client: via, the statement verify_email answered from, and
\* was, the membership a favourite toggle found before it acted.
NoResp == [op |-> "none", outcome |-> "none", via |-> "none", user |-> 0,
           token |-> 0, item |-> 0, status |-> "none", is_favourite |-> FALSE,
           was |-> FALSE]

Idle == [pc |-> "idle", user |-> 0, token |-> 0]

\* UserRegistrationForm.is_valid(): the username and the email are each unused,
\* compared case-insensitively.
FormIsValid(us, username, email) ==
    \A u \in DOMAIN us : /\ Fold(us[u].username) # Fold(username)
                         /\ Fold(us[u].email) # Fold(email)

\* Variant of RegisterIsActive that forgets to deactivate the new account.
RegisterIsActiveDefault == TRUE

\* new_user.is_active = False
RegisterIsActive == FALSE

\* EmailVerificationToken.objects.filter(user=user).delete()
DeleteTokensOf(ts, u) == [ts EXCEPT ![u] = <<>>]

\* EmailVerificationToken.objects.create(user=user): token = uuid4(),
\* created_at = now (auto_now_add)
CreateToken(ts, u, value, t) ==
    [ts EXCEPT ![u] = Append(@, [token |-> value, created_at |-> t])]

\* Variant of IssueToken that leaves the older rows in place.
IssueTokenKeepOld(ts, u, value, t) == CreateToken(ts, u, value, t)

\* The first two statements of send_verification_email.
IssueToken(ts, u, value, t) == CreateToken(DeleteTokensOf(ts, u), u, value, t)

\* Variant of send_verification_email that undoes the issuance when mail fails.
send_verification_email_rollback(ts, u, value, t, mailOk) ==
    IF mailOk THEN IssueToken(ts, u, value, t) ELSE ts

\* send_verification_email: the token table it leaves.  send_mail raising
\* (mailOk false) is caught by `except Exception` after the rows are written.
send_verification_email(ts, u, value, t, mailOk) == IssueToken(ts, u, value, t)

\* The owners of the rows EmailVerificationToken.objects.get(token=v) matches.
Owners(ts, v) ==
    {u \in DOMAIN ts : \E i \in 1..Len(ts[u]) : ts[u][i].token = v}

TokenRow(ts, u, v) ==
    LET i == CHOOSE j \in 1..Len(ts[u]) : ts[u][j].token = v IN ts[u][i]

\* Variant of VerifyAccepts that skips the expiry check.
VerifyAcceptsAny(row, t) == TRUE

\* if verification_token.is_valid():
VerifyAccepts(row, t) == is_valid(row, t)

\* user.is_active = True; user.save()   (the row; post_save is applied apart)
ActivateUser(us, u) == [us EXCEPT ![u].is_active = TRUE]

\* user.profile.verified = True; user.profile.save()
MarkVerified(ps, u) ==
    [ps EXCEPT ![u] = [i \in 1..Len(@) |-> [@[i] EXCEPT !.verified = TRUE]]]

\* Variant of DeleteToken that leaves the row.
DeleteTokenSkipped(ts, u, v) == ts

\* verification_token.delete(): deletes the fetched row (v identifies it, every
\* row having its own value).
DeleteToken(ts, u, v) ==
    [ts EXCEPT ![u] = SelectSeq(@, LAMBDA r : r.token # v)]

----------------------------------------------------------------------------
\* The state after the migrations: empty tables, an anonymous client.

Init ==
    /\ users = <<>>
    /\ profiles = <<>>
    /\ tokens = <<>>
    /\ nextToken = 0
    /\ now = 0
    /\ sessionUser = 0
    /\ resp = NoResp
    /\ delivery = "none"
    /\ prevToggle = NoResp
    /\ consumed = {}
    /\ inflight = Idle

----------------------------------------------------------------------------
\* accounts/views.py: registration and e-mail verification

\* register_view, POST.  mailOk: whether send_mail returns or raises.
register_view(username, email, password, mailOk) ==
    /\ delivery' = IF ~FormIsValid(users, username, email) THEN "none"
                   ELSE IF mailOk THEN "sent" ELSE "failed"
    /\ prevToggle' = NoResp
    /\ UNCHANGED <<now, sessionUser, consumed, inflight>>
    /\ IF ~FormIsValid(users, username, email)
       THEN /\ resp' = [NoResp EXCEPT !.op = "register", !.outcome = "form_errors"]
            /\ UNCHANGED <<users, profiles, tokens, nextToken>>
       ELSE LET uid == Cardinality(DOMAIN users) + 1
            IN  /\ nextToken < MaxTokens
                /\ users' = users @@ (uid :> [username |-> username,
                                              email |-> email,
                                              password |-> Hash(password),
                                              is_active |-> RegisterIsActive])
                /\ profiles' = post_save(profiles @@ (uid :> <<>>), uid, TRUE)
                /\ tokens' = send_verification_email(tokens @@ (uid :> <<>>), uid,
                                                     nextToken + 1, now, mailOk)
                /\ nextToken' = nextToken + 1
                /\ resp' = [NoResp EXCEPT !.op = "register",
                                          !.outcome = "verification_sent",
                                          !.user = uid,
                                          !.token = nextToken + 1]

\* send_verification_email called for an account that exists already.
resend_verification(u, mailOk) ==
    /\ u \in DOMAIN users
    /\ nextToken < MaxTokens
    /\ tokens' = send_verification_email(tokens, u, nextToken + 1, now, mailOk)
    /\ nextToken' = nextToken + 1
    /\ delivery' = IF mailOk THEN "sent" ELSE "failed"
    /\ resp' = [NoResp EXCEPT !.op = "resend", !.outcome = "verification_sent",
                              !.user = u, !.token = nextToken + 1]
    /\ prevToggle' = NoResp
    /\ UNCHANGED <<users, profiles, now, sessionUser, consumed, inflight>>

\* render(... "email_verification_invalid.html"), from the DoesNotExist handler
\* or after is_valid() returned False.
Invalid(v, via) ==
    [NoResp EXCEPT !.op = "verify_email", !.outcome = "invalid", !.via = via,
                   !.token = v]

\* render(... "email_verified.html")
Verified(u, v) ==
    [NoResp EXCEPT !.op = "verify_email", !.outcome = "verified",
                   !.user = u, !.token = v]

\* verify_email, handled without interruption.
verify_email(v) ==
    /\ delivery' = "none"
    /\ prevToggle' = NoResp
    /\ UNCHANGED <<nextToken, now, sessionUser, inflight>>
    /\ IF Owners(tokens, v) = {}
       THEN /\ resp' = Invalid(v, "DoesNotExist")
            /\ UNCHANGED <<users, profiles, tokens, consumed>>
       ELSE LET u == CHOOSE x \in Owners(tokens, v) : TRUE
            IN  IF VerifyAccepts(TokenRow(tokens, u, v), now)
                THEN /\ users' = ActivateUser(users, u)
                     /\ profiles' = MarkVerified(post_save(profiles, u, FALSE), u)
                     /\ tokens' = DeleteToken(tokens, u, v)
                     /\ consumed' = consumed \cup {<<v, u>>}
                     /\ resp' = Verified(u, v)
                ELSE /\ resp' = Invalid(v, "expired")
                     /\ UNCHANGED <<users, profiles, tokens, consumed>>

\* verify_email as the database sees it: every save() and delete() commits on
\* its own (there is no transaction.atomic around them), so the request can be
\* interrupted, and other requests served, between any two of them.
verify_begin(v) ==
    /\ inflight = Idle
    /\ delivery' = "none"
    /\ prevToggle' = NoResp
    /\ UNCHANGED <<users, profiles, tokens, nextToken, now, sessionUser, consumed>>
    /\ IF Owners(tokens, v) = {}
       THEN resp' = Invalid(v, "DoesNotExist") /\ UNCHANGED inflight
       ELSE LET u == CHOOSE x \in Owners(tokens, v) : TRUE
            IN  IF VerifyAccepts(TokenRow(tokens, u, v), now)
                THEN /\ inflight' = [pc |-> "save_user", user |-> u, token |-> v]
                     /\ UNCHANGED resp
                ELSE resp' = Invalid(v, "expired") /\ UNCHANGED inflight

verify_save_user ==
    /\ inflight.pc = "save_user"
    /\ users' = ActivateUser(users, inflight.user)
    /\ profiles' = post_save(profiles, inflight.user, FALSE)
    /\ inflight' = [inflight EXCEPT !.pc = "save_profile"]
    /\ UNCHANGED <<tokens, nextToken, now, sessionUser, resp, delivery,
                   prevToggle, consumed>>

verify_save_profile ==
    /\ inflight.pc = "save_profile"
    /\ profiles' = MarkVerified(profiles, inflight.user)
    /\ inflight' = [inflight EXCEPT !.pc = "delete_token"]
    /\ UNCHANGED <<users, tokens, nextToken, now, sessionUser, resp, delivery,
                   prevToggle, consumed>>

verify_delete_token ==
    /\ inflight.pc = "delete_token"
    /\ tokens' = DeleteToken(tokens, inflight.user, inflight.token)
    /\ consumed' = consumed \cup {<<inflight.token, inflight.user>>}
    /\ resp' = Verified(inflight.user, inflight.token)
    /\ inflight' = Idle
    /\ UNCHANGED <<users, profiles, nextToken, now, sessionUser, delivery,
                   prevToggle>>

\* The worker handling verify_email dies (or the connection drops) between two
\* of its writes: what is committed stays, the rest never happens.
interrupt ==
    /\ inflight.pc # "idle"
    /\ inflight' = Idle
    /\ resp' = [NoResp EXCEPT !.op = "verify_email", !.outcome = "aborted",
                              !.user = inflight.user, !.token = inflight.token]
    /\ UNCHANGED <<users, profiles, tokens, nextToken, now, sessionUser, delivery,
                   prevToggle, consumed>>

----------------------------------------------------------------------------
\* accounts/views.py: authentication

\* login_view, POST.  login() records last_login with user.save(), which runs
\* the post_save receivers.
login_view(username, password) ==
    LET user == authenticate(users, username, password)
        Resp(outcome, u) ==
            [NoResp EXCEPT !.op = "login", !.outcome = outcome, !.user = u]
    IN  /\ delivery' = "none"
        /\ prevToggle' = NoResp
        /\ UNCHANGED <<users, tokens, nextToken, now, consumed, inflight>>
        /\ IF user = -1
           THEN /\ resp' = Resp("server_error", 0)
                /\ UNCHANGED <<profiles, sessionUser>>
           ELSE IF user = 0
           THEN /\ resp' = Resp("invalid", 0)
                /\ UNCHANGED <<profiles, sessionUser>>
           ELSE IF users[user].is_active
           THEN /\ sessionUser' = user
                /\ profiles' = post_save(profiles, user, FALSE)
                /\ resp' = Resp("logged_in", user)
           ELSE /\ resp' = Resp("not_activated", 0)
                /\ UNCHANGED <<profiles, sessionUser>>

\* logout_view (login_required sends an anonymous client to the login page)
logout_view ==
    /\ resp' = [NoResp EXCEPT !.op = "logout",
                              !.outcome = IF sessionUser = 0 THEN "login_required"
                                          ELSE "logged_out"]
    /\ sessionUser' = 0
    /\ delivery' = "none"
    /\ prevToggle' = NoResp
    /\ UNCHANGED <<users, profiles, tokens, nextToken, now, consumed, inflight>>

----------------------------------------------------------------------------
\* accounts/views.py: favourites.  Item 0 stands for a slug or id that matches
\* no catalogue row.

ToggleOps == {"add_favourite_product", "add_favourite_prompt",
              "add_favourite_template"}

\* What every toggle does apart from the relation it works on: what comes
\* before the membership test, and the bookkeeping.
ToggleFrame(op) ==
    /\ delivery' = "none"
    /\ prevToggle' = IF resp.op \in ToggleOps THEN resp ELSE NoResp
    /\ UNCHANGED <<users, tokens, nextToken, now, sessionUser, consumed, inflight>>

\* login_required, get_object_or_404 and request.user.profile: the outcome,
\* "ok" when the handler gets as far as the membership test.
TogglePrelude(item) ==
    IF sessionUser = 0 THEN "login_required"
    ELSE IF item \notin Items THEN "not_found"
    ELSE IF Len(profiles[sessionUser]) = 0 THEN "server_error"
    ELSE "ok"

\* Variant of m2m_remove that removes nothing.
m2m_remove_nothing(S, x) == S

\* <relation>.remove(item) and <relation>.add(item)
m2m_remove(S, x) == S \ {x}
m2m_add(S, x) == S \cup {x}

\* The profile row of the logged-in user with one field replaced.
WithField(field, value) ==
    [profiles EXCEPT ![sessionUser][1] = [@ EXCEPT ![field] = value]]

add_favourite_product(product) ==
    /\ ToggleFrame("add_favourite_product")
    /\ LET pre == TogglePrelude(product)
           R == [NoResp EXCEPT !.op = "add_favourite_product", !.outcome = pre,
                               !.user = sessionUser, !.item = product]
       IN  IF pre # "ok"
           THEN resp' = R /\ UNCHANGED profiles
           ELSE LET favs == profiles[sessionUser][1].favourite_products
                IN  IF product \in favs
                    THEN /\ profiles' = WithField("favourite_products",
                                                  m2m_remove(favs, product))
                         /\ resp' = [R EXCEPT !.status = "success",
                                              !.is_favourite = FALSE,
                                              !.was = TRUE]
                    ELSE /\ profiles' = WithField("favourite_products",
                                                  m2m_add(favs, product))
                         /\ resp' = [R EXCEPT !.status = "success",
                                              !.is_favourite = TRUE,
                                              !.was = FALSE]

add_favourite_prompt(prompt) ==
    /\ ToggleFrame("add_favourite_prompt")
    /\ LET pre == TogglePrelude(prompt)
           R == [NoResp EXCEPT !.op = "add_favourite_prompt", !.outcome = pre,
                               !.user = sessionUser, !.item = prompt]
       IN  IF pre # "ok"
           THEN resp' = R /\ UNCHANGED profiles
           ELSE LET saved == profiles[sessionUser][1].saved_prompts
                IN  IF prompt \in saved
                    THEN /\ profiles' = WithField("saved_prompts",
                                                  m2m_remove(saved, prompt))
                         /\ resp' = [R EXCEPT !.status = "removed", !.was = TRUE]
                    ELSE /\ profiles' = WithField("saved_prompts",
                                                  m2m_add(saved, prompt))
                         /\ resp' = [R EXCEPT !.status = "saved", !.was = FALSE]

add_favourite_template(template) ==
    /\ ToggleFrame("add_favourite_template")
    /\ LET pre == TogglePrelude(template)
           R == [NoResp EXCEPT !.op = "add_favourite_template", !.outcome = pre,
                               !.user = sessionUser, !.item = template]
       IN  IF pre # "ok"
           THEN resp' = R /\ UNCHANGED profiles
           ELSE LET saved == profiles[sessionUser][1].saved_templates
                IN  IF template \in saved
                    THEN /\ profiles' = WithField("saved_templates",
                                                  m2m_remove(saved, template))
                         /\ resp' = [R EXCEPT !.status = "removed", !.was = TRUE]
                    ELSE /\ profiles' = WithField("saved_templates",
                                                  m2m_add(saved, template))
                         /\ resp' = [R EXCEPT !.status = "saved", !.was = FALSE]

----------------------------------------------------------------------------
\* accounts/admin.py

\* UserProfileAdmin: a staff member deletes a profile row (the ModelAdmin's
\* delete view; the many-to-many rows go with it).
admin_delete_profile(u) ==
    /\ u \in DOMAIN users
    /\ Len(profiles[u]) > 0
    /\ profiles' = [profiles EXCEPT ![u] = <<>>]
    /\ resp' = [NoResp EXCEPT !.op = "admin_delete_profile",
                              !.outcome = "deleted", !.user = u]
    /\ delivery' = "none"
    /\ prevToggle' = NoResp
    /\ UNCHANGED <<users, tokens, nextToken, now, sessionUser, consumed, inflight>>

----------------------------------------------------------------------------
\* Time passes between requests.
Tick(t) ==
    /\ t > now
    /\ now' = t
    /\ UNCHANGED <<users, profiles, tokens, nextToken, sessionUser, resp, delivery,
                   prevToggle, consumed, inflight>>

\* The requests of the accounts application, served at one instant.
Next ==
    \/ \E un \in Usernames, em \in Emails, pw \in RegPasswords, ok \in BOOLEAN :
          register_view(un, em, pw, ok)
    \/ \E u \in UserIds, ok \in BOOLEAN : resend_verification(u, ok)
    \/ \E v \in TokenValues : verify_email(v)
    \/ \E un \in LoginNames, pw \in LoginPasswords : login_view(un, pw)
    \/ logout_view
    \/ \E u \in UserIds : admin_delete_profile(u)

Spec == Init /\ [][Next]_vars

\* Registration and verification as time passes (the mail is delivered).
NextExpiry ==
    \/ \E un \in Usernames, em \in Emails, pw \in RegPasswords :
          register_view(un, em, pw, TRUE)
    \/ \E u \in UserIds : resend_verification(u, TRUE)
    \/ \E v \in TokenValues : verify_email(v)
    \/ \E u \in UserIds : admin_delete_profile(u)
    \/ \E t \in Instants : Tick(t)

SpecExpiry == Init /\ [][NextExpiry]_vars

\* The same server at one instant, with verify_email taken write by write.
NextInterrupted ==
    \/ \E un \in Usernames, em \in Emails, pw \in RegPasswords, ok \in BOOLEAN :
          register_view(un, em, pw, ok)
    \/ \E u \in UserIds, ok \in BOOLEAN : resend_verification(u, ok)
    \/ \E v \in TokenValues : verify_begin(v)
    \/ verify_save_user
    \/ verify_save_profile
    \/ verify_delete_token
    \/ interrupt
    \/ \E un \in LoginNames, pw \in LoginPasswords : login_view(un, pw)

SpecInterrupted == Init /\ [][NextInterrupted]_vars

\* The requests the favourites of one member depend on, at one instant.
NextFavourites ==
    \/ register_view("amy", "amy@x.org", "pw1", TRUE)
    \/ \E v \in TokenValues : verify_email(v)
    \/ \E un \in LoginNames, pw \in LoginPasswords : login_view(un, pw)
    \/ \E i \in Items \cup {0} : add_favourite_product(i)
    \/ \E i \in Items \cup {0} : add_favourite_prompt(i)
    \/ \E i \in Items \cup {0} : add_favourite_template(i)
    \/ \E u \in UserIds : admin_delete_profile(u)

SpecFavourites == Init /\ [][NextFavourites]_vars

----------------------------------------------------------------------------
\* Properties

\* The profile of u exists and is marked verified.
ProfileVerified(ps, u) == Len(ps[u]) = 1 /\ ps[u][1].verified

\* Token value v is stored and is_valid() holds of its row.
StoredValid(v) ==
    /\ Owners(tokens, v) # {}
    /\ \A u \in Owners(tokens, v) : is_valid(TokenRow(tokens, u, v), now)

\* Token value v is stored and is_valid() fails of its row.
StoredExpired(v) ==
    /\ Owners(tokens, v) # {}
    /\ \A u \in Owners(tokens, v) : ~is_valid(TokenRow(tokens, u, v), now)

\* C1: verify_email on the value of a stored, unexpired token activates the
\* owner, marks the owner's profile verified, deletes the token and answers
\* "verified"; verify_email on a value that was consumed before finds no token
\* (DoesNotExist), answers the invalid-link page and changes no table.
C1_ConsumeOnce ==
    [][\A v \in TokenValues :
         verify_email(v) =>
           /\ StoredValid(v) =>
                \A u \in Owners(tokens, v) :
                   /\ users'[u].is_active
                   /\ ProfileVerified(profiles', u)
                   /\ Owners(tokens', v) = {}
                   /\ resp' = Verified(u, v)
           /\ (\E c \in consumed : c[1] = v) =>
                /\ resp' = Invalid(v, "DoesNotExist")
                /\ UNCHANGED <<users, profiles, tokens>>]_vars

\* A consumed token was presented again and refused, its owner being active
\* and verified.
C1_Witness ==
    /\ resp = Invalid(resp.token, "DoesNotExist")
    /\ \E c \in consumed :
          /\ c[1] = resp.token
          /\ users[c[2]].is_active
          /\ ProfileVerified(profiles, c[2])

\* C2: token consumption is all or nothing.  Whenever no verify_email is left
\* between two of its writes (each one ran to its end or was interrupted, with
\* other requests served in between), no identity is active with an unverified
\* profile or verified while inactive.
C2_ConsumptionAtomic ==
    inflight = Idle =>
       \A u \in DOMAIN users :
          users[u].is_active <=> ProfileVerified(profiles, u)

\* C3: verify_email on a value no stored token has, or on the value of a stored
\* token of which is_valid() is false, leaves the identities, the profiles and
\* the tokens as they were and answers the invalid-link page.
C3_InvalidTokenNoChange ==
    [][\A v \in TokenValues :
         (verify_email(v) /\ (Owners(tokens, v) = {} \/ StoredExpired(v))) =>
            /\ UNCHANGED <<users, profiles, tokens>>
            /\ resp'.op = "verify_email"
            /\ resp'.outcome = "invalid"]_vars

\* An expired token, still stored, was presented and refused.
C3_Witness ==
    /\ resp = Invalid(resp.token, "expired")
    /\ StoredExpired(resp.token)

\* The age of a token row, in seconds.
Age(row) == now - row.created_at

\* C4 as amended: is_valid(token) is true iff now - token.created_at <= 24h: it
\* is true immediately after issuance, at an age of 23h59m59s and at an age of
\* exactly 24h0s, and false at any greater age.
C4_ValidThrough24h ==
    \A u \in DOMAIN tokens : \A i \in 1..Len(tokens[u]) :
       LET row == tokens[u][i]
       IN  /\ is_valid(row, now) <=> Age(row) <= TokenLifetime
           /\ Age(row) = 0 => is_valid(row, now)
           /\ Age(row) = TokenLifetime - 1 => is_valid(row, now)
           /\ Age(row) = TokenLifetime => is_valid(row, now)
           /\ Age(row) > TokenLifetime => ~is_valid(row, now)

\* A token aged exactly 24 hours is stored, and is_valid() holds of it.
C4_Witness ==
    \E u \in DOMAIN tokens : \E i \in 1..Len(tokens[u]) :
       Age(tokens[u][i]) = TokenLifetime /\ is_valid(tokens[u][i], now)

\* C4 as claimed: is_valid(token) is true iff now - token.created_at < 24h, so
\* false at an age of exactly 24h0s.
C4_ValidBefore24h ==
    \A u \in DOMAIN tokens : \A i \in 1..Len(tokens[u]) :
       is_valid(tokens[u][i], now) <=> Age(tokens[u][i]) < TokenLifetime

\* C5: a login whose identifier matches more than one identity (one by its
\* username, another by its e-mail) ends as an ordinary authentication failure:
\* the "invalid" answer, and no session for either identity.
C5_AmbiguousFailsClosed ==
    [][\A un \in LoginNames, pw \in LoginPasswords :
         (login_view(un, pw) /\ Cardinality(Matches(users, un)) > 1) =>
            /\ resp'.outcome = "invalid"
            /\ sessionUser' = sessionUser]_vars

\* The token values stored for identity u.
ValuesOf(ts, u) == {ts[u][i].token : i \in 1..Len(ts[u])}

\* What send_verification_email leaves for identity u: one token, the new one,
\* and no row for any value u held before.
IssuedFor(u) ==
    /\ Len(tokens'[u]) = 1
    /\ tokens'[u][1].token = nextToken + 1
    /\ nextToken + 1 \notin UNION {ValuesOf(tokens, x) : x \in DOMAIN tokens}
    /\ u \in DOMAIN tokens =>
          \A old \in ValuesOf(tokens, u) : Owners(tokens', old) = {}

\* C6: after send_verification_email has run for an identity, with or without
\* an earlier token, that identity has exactly one token, the new one, and the
\* value it held before resolves to no token; no step leaves any identity with
\* more than one token.
C6_OneTokenPerIdentity ==
    [][/\ \A u \in DOMAIN tokens' : Len(tokens'[u]) <= 1
       /\ \A u \in UserIds, ok \in BOOLEAN :
             resend_verification(u, ok) => IssuedFor(u)
       /\ \A un \in Usernames, em \in Emails, pw \in RegPasswords, ok \in BOOLEAN :
             (register_view(un, em, pw, ok) /\ FormIsValid(users, un, em)) =>
                IssuedFor(Cardinality(DOMAIN users) + 1)]_vars

\* A token was issued again for an identity that never consumed one, so that
\* still held the token of its registration: it holds the new one alone.
C6_Witness ==
    /\ resp.op = "resend"
    /\ \A c \in consumed : c[2] # resp.user
    /\ ValuesOf(tokens, resp.user) = {resp.token}
    /\ resp.token > 1

\* C7: after a request that saved an identity (register_view's creating save,
\* verify_email's save, the save login() makes), with its profile present or
\* missing before, exactly one profile owned by that identity exists.
C7_ExactlyOneProfile ==
    (\/ resp.op = "register" /\ resp.outcome = "verification_sent"
     \/ resp.op = "verify_email" /\ resp.outcome = "verified"
     \/ resp.op = "login" /\ resp.outcome = "logged_in")
       => Len(profiles[resp.user]) = 1

\* A verified identity logged in and its profile is a fresh, unverified one:
\* the profile was missing and the save re-created it.
C7_Witness ==
    /\ resp.op = "login" /\ resp.outcome = "logged_in"
    /\ \E c \in consumed : c[2] = resp.user
    /\ Len(profiles[resp.user]) = 1
    /\ ~profiles[resp.user][1].verified

\* The relation of the profile each toggle works on.
FieldOf(op) ==
    CASE op = "add_favourite_product" -> "favourite_products"
      [] op = "add_favourite_prompt" -> "saved_prompts"
      [] op = "add_favourite_template" -> "saved_templates"

\* The last two requests were toggles of the same kind, by the same profile, on
\* the same item, and both reached the membership test.
ToggledTwice ==
    /\ resp.op \in ToggleOps /\ resp.outcome = "ok"
    /\ prevToggle.op = resp.op /\ prevToggle.outcome = "ok"
    /\ prevToggle.user = resp.user /\ prevToggle.item = resp.item

\* After two toggles in a row the membership is what the first one found.
MembershipRestored ==
    (resp.item \in profiles[resp.user][1][FieldOf(resp.op)]) <=> prevToggle.was

C9_DeliveryFailureAbsorbed ==
    (resp.op = "register" /\ delivery # "none") =>
       /\ resp.outcome = "verification_sent"
       /\ resp.user \in DOMAIN users
       /\ ~users[resp.user].is_active
       /\ Owners(tokens, resp.token) = {resp.user}

\* A registration whose mail delivery failed has just been answered.
C9_Witness ==
    /\ resp.op = "register" /\ delivery = "failed"
    /\ resp.outcome = "verification_sent"
    /\ Owners(tokens, resp.token) = {resp.user}

\* C10: the session belongs to an identity only if verify_email found an
\* unexpired token of that identity before.
C10_NoLoginBeforeVerification ==
    /\ sessionUser # 0 => \E c \in consumed : c[2] = sessionUser
    /\ (resp.op = "login" /\ resp.outcome = "logged_in") =>
          \E c \in consumed : c[2] = resp.user

\* A verified identity is logged in.
C10_Witness ==
    /\ sessionUser # 0
    /\ resp.op = "login" /\ resp.outcome = "logged_in"
    /\ \E c \in consumed : c[2] = sessionUser

====
